---- MODULE Spec2Model ----
(***************************************************************************)
(* Model of webscraper_weather.py: the WebScraper pipeline (set_webdriver, *)
(* get_data, load_data, driver.close, write_data) and the value            *)
(* sanitization regex applied to every scraped cell.                       *)
(*                                                                         *)
(* Text is modelled as a sequence of one-character strings so that the     *)
(* regular expression and the date formatting work on characters.          *)
(***************************************************************************)
EXTENDS Integers, Sequences, FiniteSets, TLC

VARIABLES station_dict, driver, closes, pc, fault, idx, rowsLeft, rowsSeen,
          data, data_temp, data_wind, files, stdout, cell, once, twice, step

vars == <<station_dict, driver, closes, pc, fault, idx, rowsLeft, rowsSeen,
          data, data_temp, data_wind, files, stdout, cell, once, twice, step>>

pipevars == <<station_dict, driver, closes, pc, fault, idx, rowsLeft,
              rowsSeen, data, data_temp, data_wind, files, stdout>>

stripvars == <<cell, once, twice, step>>

(***************************************************************************)
(* Bounds                                                                  *)
(***************************************************************************)
MaxStations == 2

MaxRows == 2

MaxFrags == 4

(***************************************************************************)
(* Characters and text helpers                                             *)
(***************************************************************************)
DigitChars == <<"0", "1", "2", "3", "4", "5", "6", "7", "8", "9">>

Digits == {DigitChars[i] : i \in 1..10}

DigitVal(c) == (CHOOSE i \in 1..10 : DigitChars[i] = c) - 1

RECURSIVE IntToChars(_)
IntToChars(n) ==
  IF n < 10 THEN <<DigitChars[n + 1]>>
  ELSE IntToChars(n \div 10) \o <<DigitChars[(n % 10) + 1]>>

RECURSIVE CharsToInt(_)
CharsToInt(s) ==
  IF Len(s) = 0 THEN 0
  ELSE 10 * CharsToInt(SubSeq(s, 1, Len(s) - 1)) + DigitVal(s[Len(s)])

AllDigits(s) == Len(s) > 0 /\ \A i \in 1..Len(s) : s[i] \in Digits

RECURSIVE ZeroPad(_, _)
ZeroPad(s, w) == IF Len(s) >= w THEN s ELSE ZeroPad(<<"0">> \o s, w)

RECURSIVE SplitDash(_)
SplitDash(s) ==
  IF \A i \in 1..Len(s) : s[i] # "-" THEN <<s>>
  ELSE LET k == CHOOSE i \in 1..Len(s) :
                   s[i] = "-" /\ \A j \in 1..(i - 1) : s[j] # "-"
       IN <<SubSeq(s, 1, k - 1)>> \o SplitDash(SubSeq(s, k + 1, Len(s)))

RECURSIVE Concat(_)
Concat(ss) == IF Len(ss) = 0 THEN <<>> ELSE Head(ss) \o Concat(Tail(ss))

StartsAt(s, i, lit) ==
  /\ i + Len(lit) - 1 <= Len(s)
  /\ \A k \in 1..Len(lit) : s[i + k - 1] = lit[k]

Contains(s, lit) == \E i \in 1..Len(s) : StartsAt(s, i, lit)

CountChar(s, c) == Cardinality({i \in 1..Len(s) : s[i] = c})

(***************************************************************************)
(* The sanitization regex  r'\nRevision: (\d+\.+\-)'  and re.sub with ''   *)
(***************************************************************************)
RevisionLit == <<"\n", "R", "e", "v", "i", "s", "i", "o", "n", ":", " ">>

RECURSIVE RunLen(_, _, _)
RunLen(s, i, cs) ==
  IF i <= Len(s) /\ s[i] \in cs THEN 1 + RunLen(s, i + 1, cs) ELSE 0

\* Mutant: the leading newline of the pattern is optional.
MatchEndOptionalNewline(s, i) ==
  LET lit == IF StartsAt(s, i, RevisionLit) THEN RevisionLit
             ELSE Tail(RevisionLit)
      d  == i + Len(lit)
      nd == RunLen(s, d, Digits)
      np == RunLen(s, d + nd, {"."})
      e  == d + nd + np
  IN IF StartsAt(s, i, lit) /\ nd >= 1 /\ np >= 1 /\ e <= Len(s) /\ s[e] = "-"
     THEN e + 1 ELSE 0

\* Mutant: the pattern without its literal '\nRevision: ' part.
MatchEndNoLiteral(s, i) ==
  LET nd == RunLen(s, i, Digits)
      np == RunLen(s, i + nd, {"."})
      e  == i + nd + np
  IN IF nd >= 1 /\ np >= 1 /\ e <= Len(s) /\ s[e] = "-" THEN e + 1 ELSE 0

\* Index just past the match of the pattern starting at i, or 0 if there is
\* no match at i.  Digits, dots and the dash are disjoint character classes,
\* so the greedy match is the only one.
MatchEnd(s, i) ==
  IF ~StartsAt(s, i, RevisionLit) THEN 0
  ELSE LET d  == i + Len(RevisionLit)
           nd == RunLen(s, d, Digits)
           np == RunLen(s, d + nd, {"."})
           e  == d + nd + np
       IN IF nd >= 1 /\ np >= 1 /\ e <= Len(s) /\ s[e] = "-"
          THEN e + 1 ELSE 0

RECURSIVE SubFrom(_, _)
SubFrom(s, i) ==
  IF i > Len(s) THEN <<>>
  ELSE LET e == MatchEnd(s, i)
       IN IF e > 0 THEN SubFrom(s, e) ELSE <<s[i]>> \o SubFrom(s, i + 1)

\* re.sub(pattern, '', row): every non-overlapping match, left to right.
re_sub(s) == SubFrom(s, 1)

(***************************************************************************)
(* Timestamps: pd.to_datetime(str(year)+'-'+str(m)+'-1').strftime(...)     *)
(***************************************************************************)
to_datetime(s) ==
  LET p == SplitDash(s)
  IN [year |-> CharsToInt(p[1]), month |-> CharsToInt(p[2]),
      day |-> CharsToInt(p[3])]

strftime(dt) ==
  ZeroPad(IntToChars(dt.year), 4) \o <<"-">>
    \o ZeroPad(IntToChars(dt.month), 2) \o <<"-">>
    \o ZeroPad(IntToChars(dt.day), 2)

dates(year) ==
  [m \in 1..12 |->
     strftime(to_datetime(year \o <<"-">> \o IntToChars(m) \o <<"-", "1">>))]

(***************************************************************************)
(* Configuration: station_dict, in the dictionary's insertion order        *)
(***************************************************************************)
StationNames == <<"WAKKANAI", "HABORO", "RUMOI", "OBIHIRO",
                  "OMU", "SUTTSU", "MURORAN", "KUTCHAN">>

StationSites == <<"47401", "47404", "47406", "47417",
                  "47405", "47421", "47423", "47433">>

\* '1' and '4' are the codes load_data dispatches on; '2' is the wind speed
\* code named by the comment above station_dict.
Channels == {"1", "4", "2"}

Configs ==
  UNION {{[i \in 1..n |-> [name |-> StationNames[i],
                           site |-> StationSites[i],
                           channel |-> ch[i]]] : ch \in [1..n -> Channels]}
         : n \in 1..MaxStations}

channel_of(name) ==
  LET i == CHOOSE k \in 1..Len(station_dict) : station_dict[k].name = name
  IN station_dict[i].channel

(***************************************************************************)
(* Table rows the page can serve (the cell texts of one <tr>)              *)
(***************************************************************************)
YearLabel == <<"Y", "e", "a", "r">>

Y1991 == <<"1", "9", "9", "1">>

Y1992 == <<"1", "9", "9", "2">>

MonthLabels ==
  <<<<"J", "a", "n">>, <<"F", "e", "b">>, <<"M", "a", "r">>,
    <<"A", "p", "r">>, <<"M", "a", "y">>, <<"J", "u", "n">>,
    <<"J", "u", "l">>, <<"A", "u", "g">>, <<"S", "e", "p">>,
    <<"O", "c", "t">>, <<"N", "o", "v">>, <<"D", "e", "c">>>>

AnnualLabel == <<"A", "n", "n", "u", "a", "l">>

Summary == <<"6", ".", "5">>

BaseValue(m) == IntToChars(m) \o <<".", "0">>

AnnotatedCell == <<"5", ".", "3">> \o RevisionLit \o <<"1", "2", ".", "-">>

MissingCell == <<"/", "/", "/">>

YearRow(year, j, c) ==
  <<year>> \o [m \in 1..12 |-> IF m = j THEN c ELSE BaseValue(m)]
           \o <<Summary>>

WellFormedRows ==
  {YearRow(Y1991, 0, <<>>), YearRow(Y1992, 0, <<>>),
   YearRow(Y1991, 1, AnnotatedCell), YearRow(Y1991, 12, MissingCell)}

HeaderRows ==
  {<<YearLabel>> \o MonthLabels \o <<AnnualLabel>>,
   YearRow(YearLabel, 0, <<>>),
   <<YearLabel>>}

MalformedRows ==
  {<<>>,
   <<Y1991>> \o [m \in 1..11 |-> BaseValue(m)] \o <<Summary>>,
   <<Y1991>> \o [m \in 1..13 |-> BaseValue(m)] \o <<Summary>>}

Rows == WellFormedRows \cup HeaderRows \cup MalformedRows

(***************************************************************************)
(* load_data, one table row                                                *)
(***************************************************************************)
\* Mutant: the slice keeps the trailing summary cell and drops the first
\* monthly value.
values_shifted(cells) == SubSeq(cells, 3, Len(cells))

\* np.array(data[1:-1])
values(cells) == SubSeq(cells, 2, Len(cells) - 1)

\* pd.to_datetime raises on a year text that is not a number.
date_faults(year) == ~AllDigits(year)

\* The column of twelve dates does not fit the number of values (or, with
\* no value at all, re.sub is applied to a missing value).
shape_faults(cells) == Len(values(cells)) # 12

\* Mutant: the header test compares the wrong cell.
is_header_last(cells) == cells[Len(cells)] = YearLabel

\* year != 'Year', negated
is_header(cells) == cells[1] = YearLabel

data_insert(cells, station) ==
  [m \in 1..12 |-> [Value |-> re_sub(values(cells)[m]),
                    Time |-> dates(cells[1])[m],
                    Station |-> station]]

\* Mutant: new rows are put in front of the accumulated frame.
concat_front(df, ins) == ins \o df

\* pd.concat([df, data_insert], axis=0, ignore_index=True, sort=False)
concat(df, ins) == df \o ins

\* Mutant: the wind speed branch tests the code '2' of the comment.
appends_wind_2(data_type) == data_type = "2"

\* Mutant: the temperature branch tests the code for truth only.
appends_temp_any(data_type) == data_type # ""

appends_temp(data_type) == data_type = "1"

appends_wind(data_type) == data_type = "4"

to_json(df) ==
  [i \in 1..Len(df) |-> [Time |-> df[i].Time, Value |-> df[i].Value,
                         Station |-> df[i].Station]]

(***************************************************************************)
(* Pipeline                                                                *)
(***************************************************************************)
PipeInit ==
  /\ station_dict \in Configs
  /\ driver = "none"
  /\ closes = 0
  /\ pc = "set_webdriver"
  /\ fault = "none"
  /\ idx = 0
  /\ rowsLeft = 0
  /\ rowsSeen = 0
  /\ data = <<>>
  /\ data_temp = <<>>
  /\ data_wind = <<>>
  /\ files = <<>>
  /\ stdout = <<>>

Raise(kind) ==
  /\ pc' = "fault"
  /\ fault' = kind

SetWebdriver ==
  /\ pc = "set_webdriver"
  /\ driver' = "open"
  /\ pc' = "get_data"
  /\ UNCHANGED <<station_dict, closes, fault, idx, rowsLeft, rowsSeen,
                 data, data_temp, data_wind, files, stdout>>

SetWebdriverFails ==
  /\ pc = "set_webdriver"
  /\ Raise("set_webdriver")
  /\ UNCHANGED <<station_dict, driver, closes, idx, rowsLeft, rowsSeen,
                 data, data_temp, data_wind, files, stdout>>

OpenUrl ==
  /\ pc = "get_data"
  /\ idx' = 1
  /\ pc' = "station"
  /\ UNCHANGED <<station_dict, driver, closes, fault, rowsLeft, rowsSeen,
                 data, data_temp, data_wind, files, stdout>>

OpenUrlFails ==
  /\ pc = "get_data"
  /\ Raise("driver.get")
  /\ UNCHANGED <<station_dict, driver, closes, idx, rowsLeft, rowsSeen,
                 data, data_temp, data_wind, files, stdout>>

\* Loop body of get_data up to the call of load_data; n is the number of
\* rows find_elements_by_xpath returns for the refreshed page.
SubmitStation(n) ==
  /\ pc = "station"
  /\ idx <= Len(station_dict)
  /\ rowsSeen + n <= MaxRows
  /\ stdout' = Append(stdout, <<"Starting", station_dict[idx].name>>)
  /\ rowsLeft' = n
  /\ pc' = "load_data"
  /\ UNCHANGED <<station_dict, driver, closes, fault, idx, rowsSeen,
                 data, data_temp, data_wind, files>>

SubmitStationFails ==
  /\ pc = "station"
  /\ idx <= Len(station_dict)
  /\ stdout' = Append(stdout, <<"Starting", station_dict[idx].name>>)
  /\ Raise("find_element")
  /\ UNCHANGED <<station_dict, driver, closes, idx, rowsLeft, rowsSeen,
                 data, data_temp, data_wind, files>>

\* One iteration of the loop of load_data over the rows of the table; cells
\* is what find_elements_by_xpath(elem_xpath) yields for the row.
LoadRow(cells) ==
  LET station   == station_dict[idx].name
      data_type == station_dict[idx].channel
  IN
  /\ pc = "load_data"
  /\ rowsLeft > 0
  /\ rowsSeen' = rowsSeen + 1
  /\ data' = cells
  /\ IF Len(cells) = 0
       THEN /\ Raise("data[0]")
            /\ UNCHANGED <<rowsLeft, data_temp, data_wind, stdout>>
     ELSE IF is_header(cells)
       THEN /\ rowsLeft' = rowsLeft - 1
            /\ UNCHANGED <<pc, fault, data_temp, data_wind, stdout>>
     ELSE IF date_faults(cells[1])
       THEN /\ stdout' = Append(stdout, <<"Scraping", cells[1]>>)
            /\ Raise("to_datetime")
            /\ UNCHANGED <<rowsLeft, data_temp, data_wind>>
     ELSE IF shape_faults(cells)
       THEN /\ stdout' = Append(stdout, <<"Scraping", cells[1]>>)
            /\ Raise("data_insert")
            /\ UNCHANGED <<rowsLeft, data_temp, data_wind>>
     ELSE /\ stdout' = Append(stdout, <<"Scraping", cells[1]>>)
          /\ rowsLeft' = rowsLeft - 1
          /\ data_temp' = IF appends_temp(data_type)
                            THEN concat(data_temp, data_insert(cells, station))
                            ELSE data_temp
          /\ data_wind' = IF ~appends_temp(data_type) /\ appends_wind(data_type)
                            THEN concat(data_wind, data_insert(cells, station))
                            ELSE data_wind
          /\ UNCHANGED <<pc, fault>>
  /\ UNCHANGED <<station_dict, driver, closes, idx, files>>

\* load_data returns; rest of the loop body of get_data.
FinishStation ==
  /\ pc = "load_data"
  /\ rowsLeft = 0
  /\ stdout' = Append(stdout, <<"Finished", station_dict[idx].name>>)
  /\ idx' = idx + 1
  /\ pc' = "station"
  /\ UNCHANGED <<station_dict, driver, closes, fault, rowsLeft, rowsSeen,
                 data, data_temp, data_wind, files>>

\* Mutant: the pipeline goes on to write_data without closing the session.
CloseDriverSkipped ==
  /\ pc = "station"
  /\ idx > Len(station_dict)
  /\ pc' = "write_data"
  /\ UNCHANGED <<station_dict, driver, closes, fault, idx, rowsLeft, rowsSeen,
                 data, data_temp, data_wind, files, stdout>>

\* get_data returns; self.driver.close()
CloseDriver ==
  /\ pc = "station"
  /\ idx > Len(station_dict)
  /\ driver' = "closed"
  /\ closes' = closes + 1
  /\ pc' = "write_data"
  /\ UNCHANGED <<station_dict, fault, idx, rowsLeft, rowsSeen,
                 data, data_temp, data_wind, files, stdout>>

\* Mutant: write_data also runs when the run has raised (as in a finally
\* block).
WriteDataFinally ==
  /\ pc \in {"write_data", "fault"}
  /\ DOMAIN files = {}
  /\ files' = [f \in {"data_temp.json", "data_wind.json"} |->
                 IF f = "data_temp.json" THEN to_json(data_temp)
                 ELSE to_json(data_wind)]
  /\ pc' = "done"
  /\ UNCHANGED <<station_dict, driver, closes, fault, idx, rowsLeft,
                 rowsSeen, data, data_temp, data_wind, stdout>>

\* write_data
WriteData ==
  /\ pc = "write_data"
  /\ files' = [f \in {"data_temp.json", "data_wind.json"} |->
                 IF f = "data_temp.json" THEN to_json(data_temp)
                 ELSE to_json(data_wind)]
  /\ pc' = "done"
  /\ UNCHANGED <<station_dict, driver, closes, fault, idx, rowsLeft,
                 rowsSeen, data, data_temp, data_wind, stdout>>

Init ==
  /\ PipeInit
  /\ cell = <<>>
  /\ once = <<>>
  /\ twice = <<>>
  /\ step = 0

Next ==
  \/ SetWebdriver /\ UNCHANGED stripvars
  \/ SetWebdriverFails /\ UNCHANGED stripvars
  \/ OpenUrl /\ UNCHANGED stripvars
  \/ OpenUrlFails /\ UNCHANGED stripvars
  \/ (\E n \in 0..MaxRows : SubmitStation(n)) /\ UNCHANGED stripvars
  \/ SubmitStationFails /\ UNCHANGED stripvars
  \/ (\E cells \in Rows : LoadRow(cells)) /\ UNCHANGED stripvars
  \/ FinishStation /\ UNCHANGED stripvars
  \/ CloseDriver /\ UNCHANGED stripvars
  \/ WriteData /\ UNCHANGED stripvars

Spec == Init /\ [][Next]_vars

(***************************************************************************)
(* The sanitization on its own: cell texts assembled from fragments        *)
(***************************************************************************)
Frags ==
  {<<"5", ".", "3">>, <<"-", "1">>, <<"x">>,
   RevisionLit \o <<"1", "2">>, RevisionLit \o <<"9", "9", "9">>,
   Tail(RevisionLit) \o <<"1", "2">>, <<"\n">>,
   <<".">>, <<"-">>, <<".", "-">>, <<"7">>}

CellTexts ==
  {Concat(fs) : fs \in UNION {[1..n -> Frags] : n \in 0..MaxFrags}}

StripInit ==
  /\ PipeInit
  /\ Len(station_dict) = 1
  /\ station_dict[1].channel = "1"
  /\ cell \in CellTexts
  /\ once = <<>>
  /\ twice = <<>>
  /\ step = 0

\* data_insert.Value.apply(lambda row: re.sub(...)) on one cell
Sanitize ==
  /\ step = 0
  /\ once' = re_sub(cell)
  /\ step' = 1
  /\ UNCHANGED <<cell, twice>>

\* the same substitution applied to its own output
SanitizeAgain ==
  /\ step = 1
  /\ twice' = re_sub(once)
  /\ step' = 2
  /\ UNCHANGED <<cell, once>>

StripNext ==
  \/ Sanitize /\ UNCHANGED pipevars
  \/ SanitizeAgain /\ UNCHANGED pipevars

SpecStrip == StripInit /\ [][StripNext]_vars

(***************************************************************************)
(* Vocabulary of the properties                                            *)
(***************************************************************************)
IsPrefix(a, b) == Len(a) <= Len(b) /\ SubSeq(b, 1, Len(a)) = a

MonthText ==
  <<<<"0", "1">>, <<"0", "2">>, <<"0", "3">>, <<"0", "4">>, <<"0", "5">>,
    <<"0", "6">>, <<"0", "7">>, <<"0", "8">>, <<"0", "9">>, <<"1", "0">>,
    <<"1", "1">>, <<"1", "2">>>>

FirstOfMonth(year, m) == year \o <<"-">> \o MonthText[m] \o <<"-", "0", "1">>

\* A step of load_data's loop: one more row has been fetched.
RowStep == pc = "load_data" /\ rowsSeen' = rowsSeen + 1

\* The row just fetched has the shape (year, v1, ..., v12, summary).
WellFormed(cells) ==
  Len(cells) = 14 /\ AllDigits(cells[1]) /\ Len(cells[1]) = 4

CurChannel == station_dict[idx].channel

CurName == station_dict[idx].name

StationIndex(name) ==
  CHOOSE k \in 1..Len(station_dict) : station_dict[k].name = name

\* -?\d+(\.\d+)?
IsNumeric(t) ==
  LET u == IF Len(t) > 0 /\ t[1] = "-" THEN Tail(t) ELSE t
      n == RunLen(u, 1, Digits)
  IN /\ n >= 1
     /\ \/ n = Len(u)
        \/ /\ n + 2 <= Len(u)
           /\ u[n + 1] = "."
           /\ \A i \in (n + 2)..Len(u) : u[i] \in Digits

\* newline + 'Revision: ' + digits + one of '.', '-' + optional digits
IsAnnotation(a) ==
  /\ StartsAt(a, 1, RevisionLit)
  /\ LET d  == Len(RevisionLit) + 1
         nd == RunLen(a, d, Digits)
     IN /\ nd >= 1
        /\ d + nd <= Len(a)
        /\ a[d + nd] \in {".", "-"}
        /\ \A i \in (d + nd + 1)..Len(a) : a[i] \in Digits

\* Station of the job a line of stdout belongs to.
JobOf(p) ==
  LET q == CHOOSE k \in 1..p :
              /\ stdout[k][1] = "Starting"
              /\ \A j \in (k + 1)..p : stdout[j][1] # "Starting"
  IN stdout[q][2]

JobLines == SelectSeq(stdout, LAMBDA l : l[1] \in {"Starting", "Finished"})

\* Rows of stations with channel '1' or '4' that load_data has completed.
CountedRows ==
  Cardinality({p \in 1..Len(stdout) :
                 /\ stdout[p][1] = "Scraping"
                 /\ channel_of(JobOf(p)) \in {"1", "4"}
                 /\ ~(p = Len(stdout) /\ fault \in {"to_datetime",
                                                   "data_insert"})})

(***************************************************************************)
(* C1: every well-formed row (year, v1..v12, summary) of a station with    *)
(* channel '1' or '4' appends exactly 12 records to the station's dataset; *)
(* the m-th has Time '<year>-<mm>-01', Value the sanitized v_m and the     *)
(* station's name, so the year and the summary cell are never a Value.     *)
(***************************************************************************)
C1_Appended(old, new) ==
  /\ Len(new) = Len(old) + 12
  /\ \A m \in 1..12 :
       /\ new[Len(old) + m].Time = FirstOfMonth(data'[1], m)
       /\ new[Len(old) + m].Value = re_sub(data'[m + 1])
       /\ new[Len(old) + m].Station = CurName

C1_TwelveRecords ==
  [][(RowStep /\ WellFormed(data') /\ CurChannel \in {"1", "4"})
       => IF CurChannel = "1" THEN C1_Appended(data_temp, data_temp')
          ELSE C1_Appended(data_wind, data_wind')]_vars

C1_Witness ==
  /\ data = YearRow(Y1991, 1, AnnotatedCell)
  /\ Len(data_wind) = 12
  /\ data_wind[1].Value = <<"5", ".", "3">>
  /\ data_wind[12].Value = <<"1", "2", ".", "0">>
  /\ data_wind[12].Time = <<"1", "9", "9", "1", "-", "1", "2", "-", "0", "1">>

(***************************************************************************)
(* C2: sanitizing a numeric text followed by an annotation (newline,       *)
(* 'Revision: ', digits, '.' or '-', optional digits) yields the numeric   *)
(* text alone.                                                             *)
(***************************************************************************)
C2_AnnotationRemoved ==
  step >= 1 =>
    \A k \in 1..Len(cell) :
      (IsNumeric(SubSeq(cell, 1, k))
         /\ IsAnnotation(SubSeq(cell, k + 1, Len(cell))))
        => once = SubSeq(cell, 1, k)

(***************************************************************************)
(* C3: data_temp holds only records of stations configured with '1',       *)
(* data_wind only records of stations configured with '4', no record is    *)
(* in both, and a row step of a temperature station leaves data_wind       *)
(* unchanged (and the other way round); no row step changes both.          *)
(***************************************************************************)
C3_Partitioned ==
  /\ \A i \in 1..Len(data_temp) : channel_of(data_temp[i].Station) = "1"
  /\ \A i \in 1..Len(data_wind) : channel_of(data_wind[i].Station) = "4"
  /\ \A i \in 1..Len(data_temp) : \A j \in 1..Len(data_wind) :
       data_temp[i] # data_wind[j]

C3_OneDataset ==
  RowStep =>
    /\ data_temp' = data_temp \/ data_wind' = data_wind
    /\ CurChannel = "1" => data_wind' = data_wind
    /\ CurChannel = "4" => data_temp' = data_temp

C3_Partitioning == []C3_Partitioned /\ [][C3_OneDataset]_vars

C3_Witness ==
  /\ Len(data_temp) = 12
  /\ Len(data_wind) = 12
  /\ data_temp[1].Station = "WAKKANAI"
  /\ data_wind[1].Station = "HABORO"

(***************************************************************************)
(* C4: a row whose first cell is 'Year' is skipped whatever its other      *)
(* cells and the station's channel: both datasets stay as they are, and    *)
(* nothing is raised or printed for it.                                    *)
(***************************************************************************)
C4_HeaderSkipped ==
  [][(RowStep /\ Len(data') > 0 /\ data'[1] = YearLabel)
       => UNCHANGED <<data_temp, data_wind, pc, fault, stdout>>]_vars

C4_Witness ==
  /\ data = YearRow(YearLabel, 0, <<>>)
  /\ rowsSeen = 2
  /\ Len(data_temp) = 12
  /\ pc = "load_data"

(***************************************************************************)
(* C5: a run that raised has written no file; a file exists only when the  *)
(* run went through every station without a fault, and then both exist.    *)
(***************************************************************************)
C5_AllOrNothing ==
  /\ fault # "none" => DOMAIN files = {}
  /\ pc # "done" => DOMAIN files = {}
  /\ pc = "done" =>
       /\ DOMAIN files = {"data_temp.json", "data_wind.json"}
       /\ fault = "none"
       /\ idx = Len(station_dict) + 1
       /\ Len(JobLines) = 2 * Len(station_dict)
       /\ files["data_temp.json"] = data_temp
       /\ files["data_wind.json"] = data_wind

C5_Witness ==
  /\ pc = "fault"
  /\ fault = "data_insert"
  /\ Len(data_temp) = 12
  /\ DOMAIN files = {}

(***************************************************************************)
(* C6: a cell text without an occurrence of newline + 'Revision: ' is      *)
(* left exactly as it is by the sanitization.                              *)
(***************************************************************************)
C6_NoOverStrip ==
  (step >= 1 /\ ~Contains(cell, RevisionLit)) => once = cell

C6_Witness ==
  /\ step = 1
  /\ cell = <<"-", "1", "5", ".", "3", ".", "-">>
  /\ once = cell

(***************************************************************************)
(* C7, as stated: sanitizing twice gives the same as sanitizing once, for  *)
(* every cell text.                                                        *)
(***************************************************************************)
C7_Idempotent == step = 2 => twice = once

(***************************************************************************)
(* C7, amended: sanitizing twice gives the same as sanitizing once, for    *)
(* every cell text with at most one newline character.                     *)
(***************************************************************************)
C7_IdempotentOneNewline ==
  (step = 2 /\ CountChar(cell, "\n") <= 1) => twice = once

C7_Witness ==
  /\ step = 2
  /\ CountChar(cell, "\n") = 1
  /\ once # cell
  /\ twice = once

(***************************************************************************)
(* C8: each dataset only grows at its end: every step keeps the previous   *)
(* contents as a prefix, a row step appends the records of the current     *)
(* station only, records lie in the order the stations are iterated, and   *)
(* a row scraped twice is recorded twice.                                  *)
(***************************************************************************)
C8_Grows(old, new) ==
  /\ IsPrefix(old, new)
  /\ Len(new) > Len(old) =>
       /\ RowStep
       /\ Len(new) = Len(old) + 12
       /\ SubSeq(new, Len(old) + 1, Len(new)) = data_insert(data', CurName)

C8_StationOrder(df) ==
  \A i \in 1..Len(df) : \A j \in i..Len(df) :
    StationIndex(df[i].Station) <= StationIndex(df[j].Station)

C8_AppendOnly ==
  /\ [](C8_StationOrder(data_temp) /\ C8_StationOrder(data_wind))
  /\ [][C8_Grows(data_temp, data_temp') /\ C8_Grows(data_wind, data_wind')]_vars

C8_Witness ==
  /\ Len(data_temp) = 24
  /\ SubSeq(data_temp, 1, 12) = SubSeq(data_temp, 13, 24)

(***************************************************************************)
(* C9: the session is open while stations are processed, the stations are  *)
(* started and finished one at a time in configured order with every row   *)
(* inside its station's job, the session is closed exactly once, after the *)
(* last station and before the files are written, nothing is processed     *)
(* after the close, and a run that raised never closed the session.        *)
(***************************************************************************)
C9_Ordered ==
  /\ closes <= 1
  /\ (driver = "closed") = (closes = 1)
  /\ (driver = "none") = (pc = "set_webdriver" \/ fault = "set_webdriver")
  /\ Len(stdout) > 0 => driver # "none"
  /\ \A k \in 1..Len(JobLines) :
       JobLines[k] = <<IF k % 2 = 1 THEN "Starting" ELSE "Finished",
                       station_dict[(k + 1) \div 2].name>>
  /\ \A p \in 1..Len(stdout) :
       stdout[p][1] = "Scraping" => (p > 1 /\ stdout[p - 1][1] # "Finished")
  /\ closes = 1 => (/\ Len(JobLines) = 2 * Len(station_dict)
                    /\ pc \in {"write_data", "done"})
  /\ pc \in {"write_data", "done"} => closes = 1
  /\ DOMAIN files # {} => closes = 1
  /\ pc = "fault" => closes = 0

C9_AfterClose ==
  driver = "closed" => UNCHANGED <<driver, closes, stdout, data_temp,
                                   data_wind, idx>>

C9_RunOrdering == []C9_Ordered /\ [][C9_AfterClose]_vars

C9_Witness ==
  /\ pc = "done"
  /\ closes = 1
  /\ Len(station_dict) = 2
  /\ Len(stdout) = 6

(***************************************************************************)
(* C10: a station whose channel is neither '1' nor '4' is submitted and    *)
(* its rows are parsed, but a well-formed row of it adds no record and     *)
(* raises nothing; the two datasets together hold 12 records for each      *)
(* completed row of a station with channel '1' or '4', and nothing else.   *)
(***************************************************************************)
C10_Counted == Len(data_temp) + Len(data_wind) = 12 * CountedRows

C10_Dropped ==
  (RowStep /\ WellFormed(data') /\ CurChannel \notin {"1", "4"})
    => /\ UNCHANGED <<data_temp, data_wind, pc, fault>>
       /\ stdout' = Append(stdout, <<"Scraping", data'[1]>>)

====
